---- MODULE Spec2Model ----
(***************************************************************************)
(* Model of the concurrent aggregation engine of tspider:                  *)
(*   common.Spinner            the progress tracker                        *)
(*   common.GetAvailableSites  the source gate (and its Ex variant)        *)
(*   common.CollectData        the query dispatcher (and its Ex variant)   *)
(*   main.doSearch             one search run                              *)
(* Goroutines are processes with a program counter; a channel is a         *)
(* sequence; a Go map is a function whose iteration order is chosen        *)
(* nondeterministically.                                                   *)
(***************************************************************************)
EXTENDS Integers, Sequences, FiniteSets, TLC

\* ------------------------------------------------------------------ bounds
MaxTotal == 4       \* largest argument of SetTotal drawn by a tracker client
MaxDone == 2        \* number of IncrDone calls a tracker client makes
MaxElapsed == 3     \* largest value of time.Since(s.start), in Duration units
MaxTicks == 2       \* ticks of the render loop in one run (below NumFrames)
MaxSources == 2     \* longest source list handed to the dispatcher
MaxHandles == 3     \* longest handle list handed to the gate
MaxLatency == 2     \* largest latency a Doctor probe measures, in Duration units

\* --------------------------------------------------------- program constants
NumFrames == 10             \* len(s.frames)
Millisecond == 1000000      \* time.Millisecond, in Duration units (ns)
Second == 1000000000        \* time.Second

VARIABLES
    \* Spinner
    total, done, message, current, stop, stopped, loop, status, final,
    \* the goroutine that calls Stop / StopWithMessage on its own
    stopper,
    \* doSearch / GetAvailableSites / CollectData, main goroutine
    keyword, lang, pc, oldItems, gateCh, probe, newItems,
    s, ch, worker, m, merged, output,
    \* how often each probe goroutine has called CheckNetWorkFromURL and each
    \* query goroutine has called Crawl
    checks, crawls,
    \* package state of common: config.Sites, TorrentURL, the config file,
    \* whether LoadConfig has run, and what the last configuration call did
    sites, TorrentURL, file, loaded, ret,
    \* Doctor: its argument, the coordinator's position, the goroutines, results
    language, dpc, dworker, results

spinnerVars == <<total, done, message, current, stop, stopped, loop, status, final>>
gateVars == <<oldItems, gateCh, probe, newItems>>
collectVars == <<s, ch, worker, m, merged>>
callVars == <<checks, crawls>>
configVars == <<sites, TorrentURL, file, loaded, ret>>
doctorVars == <<language, dpc, dworker, results>>
vars == <<spinnerVars, stopper, keyword, lang, pc, gateVars, collectVars, output,
          callVars, configVars, doctorVars>>

\* -------------------------------------------------------------- helpers

\* Go's integer division truncates toward zero.
TruncDiv(a, b) == IF a >= 0 THEN a \div b ELSE -((-a) \div b)

Range(f) == {f[x] : x \in DOMAIN f}

\* All orders (sequences without repetition) in which the set S can be visited.
Perms(S) == {p \in [1..Cardinality(S) -> S] : Range(p) = S}

\* No probe and no query goroutine has been launched.
NoCalls ==
    /\ checks = <<>>
    /\ crawls = <<>>

\* The configuration as it is where it plays no part: nothing configured.
ConfigAtRest ==
    /\ sites = <<>>
    /\ TorrentURL = <<>>
    /\ file = [kind |-> "missing"]
    /\ loaded = TRUE
    /\ ret = [op |-> "none"]

\* Doctor has not been called.
DoctorAtRest ==
    /\ language = ""
    /\ dpc = "none"
    /\ dworker = <<>>
    /\ results = <<>>

\* ------------------------------------------------------------- Spinner

Messages == {"Checking sites", "Searching"}

\* formatDuration: the format verb chosen and the numbers handed to it.
formatDuration(d) ==
    IF d < Second
    THEN [verb |-> "%dms", args |-> <<TruncDiv(d, Millisecond)>>]
    ELSE IF d \div Second < 60
    THEN [verb |-> "%.1fs", args |-> <<d>>]
    ELSE [verb |-> "%dm%ds", args |-> <<(d \div Second) \div 60, (d \div Second) % 60>>]

\* render multiplying before dividing: (elapsed * (total - done)) / done.
renderMulFirst(msg, elapsed, tot, dn, cur) ==
    IF tot > 0 /\ dn > 0
    THEN LET remaining == TruncDiv(elapsed * (tot - dn), dn)
         IN [kind |-> "eta", frame |-> cur, msg |-> msg, done |-> dn, total |-> tot,
             elapsed |-> elapsed, elapsedStr |-> formatDuration(elapsed),
             remaining |-> remaining, etaStr |-> formatDuration(remaining)]
    ELSE IF tot > 0
    THEN [kind |-> "count", frame |-> cur, msg |-> msg, done |-> 0, total |-> tot,
          elapsed |-> elapsed, elapsedStr |-> formatDuration(elapsed)]
    ELSE [kind |-> "plain", frame |-> cur, msg |-> msg,
          elapsed |-> elapsed, elapsedStr |-> formatDuration(elapsed)]

\* Spinner.render: the status line printed for the fields read at the tick.
render(msg, elapsed, tot, dn, cur) ==
    IF tot > 0 /\ dn > 0
    THEN LET avgTime == TruncDiv(elapsed, dn)
             remaining == (tot - dn) * avgTime
         IN [kind |-> "eta", frame |-> cur, msg |-> msg, done |-> dn, total |-> tot,
             elapsed |-> elapsed, elapsedStr |-> formatDuration(elapsed),
             remaining |-> remaining, etaStr |-> formatDuration(remaining)]
    ELSE IF tot > 0
    THEN [kind |-> "count", frame |-> cur, msg |-> msg, done |-> 0, total |-> tot,
          elapsed |-> elapsed, elapsedStr |-> formatDuration(elapsed)]
    ELSE [kind |-> "plain", frame |-> cur, msg |-> msg,
          elapsed |-> elapsed, elapsedStr |-> formatDuration(elapsed)]

\* NewSpinner: the fields of a fresh tracker.
NewSpinner(msg) ==
    /\ total = 0
    /\ done = 0
    /\ message = msg
    /\ current = 0
    /\ stop = "open"
    /\ stopped = "open"
    /\ loop = "none"
    /\ status = [kind |-> "none"]
    /\ final = [kind |-> "none"]

\* Spinner.SetTotal
SetTotal(n) == total' = n

\* Spinner.IncrDone
IncrDone == done' = done + 1

\* Spinner.UpdateMessage
UpdateMessage(msg) == message' = msg

\* Spinner.Start: launches the render goroutine.
Start == loop' = "running"

\* The render goroutine, case <-ticker.C: render and advance the frame.
\* The loads of message, total and done in render are taken in one step;
\* time.Since(s.start) is whatever the clock says.
Tick ==
    /\ loop = "running"
    /\ current < MaxTicks
    /\ \E elapsed \in 0..MaxElapsed :
           status' = render(message, elapsed, total, done, current)
    /\ current' = (current + 1) % NumFrames
    /\ UNCHANGED <<total, done, message, stop, stopped, loop, final>>
    /\ UNCHANGED <<stopper, callVars, configVars, doctorVars, keyword, lang, pc, gateVars, collectVars, output>>

\* The render goroutine, case <-s.stop: return, the deferred close(s.stopped).
LoopExit ==
    /\ loop = "running"
    /\ stop = "closed"
    /\ loop' = "exited"
    /\ stopped' = "closed"
    /\ UNCHANGED <<total, done, message, current, stop, status, final>>
    /\ UNCHANGED <<stopper, callVars, configVars, doctorVars, keyword, lang, pc, gateVars, collectVars, output>>

\* Stop / StopWithMessage, first statement: close(s.stop).
StopClose == stop' = "closed"

\* StopFinish without the receive from s.stopped.
StopFinishNoWait == final' = [kind |-> "clear"]

\* Stop, after <-s.stopped: the line is cleared.
StopFinish ==
    /\ stopped = "closed"
    /\ final' = [kind |-> "clear"]

\* StopWithMessage, after <-s.stopped: the final check-mark line.
StopWithMessageFinish(msg) ==
    /\ stopped = "closed"
    /\ \E elapsed \in 0..MaxElapsed :
           final' = [kind |-> "check", msg |-> msg, elapsedStr |-> formatDuration(elapsed)]

\* ------------------------------------------------ a tracker and its clients
\* The tracker on its own: workers call SetTotal, IncrDone and UpdateMessage
\* at any time, the owner calls Start once on the fresh tracker and later one
\* of the two stop variants, as GetAvailableSites and doSearch do.

ClientSetTotal ==
    /\ \E n \in 0..MaxTotal : SetTotal(n)
    /\ UNCHANGED <<done, message, current, stop, stopped, loop, status, final>>
    /\ UNCHANGED <<stopper, callVars, configVars, doctorVars, keyword, lang, pc, gateVars, collectVars, output>>

ClientIncrDone ==
    /\ done < MaxDone
    /\ IncrDone
    /\ UNCHANGED <<total, message, current, stop, stopped, loop, status, final>>
    /\ UNCHANGED <<stopper, callVars, configVars, doctorVars, keyword, lang, pc, gateVars, collectVars, output>>

ClientUpdateMessage ==
    /\ \E msg \in Messages : UpdateMessage(msg)
    /\ UNCHANGED <<total, done, current, stop, stopped, loop, status, final>>
    /\ UNCHANGED <<stopper, callVars, configVars, doctorVars, keyword, lang, pc, gateVars, collectVars, output>>

ClientStart ==
    /\ loop = "none"
    /\ stopper = "none"
    /\ Start
    /\ UNCHANGED <<total, done, message, current, stop, stopped, status, final>>
    /\ UNCHANGED <<stopper, callVars, configVars, doctorVars, keyword, lang, pc, gateVars, collectVars, output>>

ClientStop ==
    /\ stopper = "none"
    /\ loop = "running"
    /\ StopClose
    /\ stopper' = "Stop"
    /\ UNCHANGED <<total, done, message, current, stopped, loop, status, final>>
    /\ UNCHANGED <<callVars, configVars, doctorVars, keyword, lang, pc, gateVars, collectVars, output>>

ClientStopWithMessage ==
    /\ stopper = "none"
    /\ loop = "running"
    /\ StopClose
    /\ stopper' = "StopWithMessage"
    /\ UNCHANGED <<total, done, message, current, stopped, loop, status, final>>
    /\ UNCHANGED <<callVars, configVars, doctorVars, keyword, lang, pc, gateVars, collectVars, output>>

ClientStopReturn ==
    /\ \/ stopper = "Stop" /\ StopFinish
       \/ stopper = "StopWithMessage" /\ StopWithMessageFinish("done")
    /\ stopper' = "returned"
    /\ UNCHANGED <<total, done, message, current, stop, stopped, loop, status>>
    /\ UNCHANGED <<callVars, configVars, doctorVars, keyword, lang, pc, gateVars, collectVars, output>>

Idle ==
    /\ keyword = "kw"
    /\ NoCalls
    /\ ConfigAtRest
    /\ DoctorAtRest
    /\ lang = "kr"
    /\ pc = "none"
    /\ oldItems = <<>>
    /\ gateCh = <<>>
    /\ probe = <<>>
    /\ newItems = <<>>
    /\ s = <<>>
    /\ ch = <<>>
    /\ worker = <<>>
    /\ m = <<>>
    /\ merged = <<>>
    /\ output = [kind |-> "none"]

InitSpinner ==
    /\ \E msg \in Messages : NewSpinner(msg)
    /\ stopper = "none"
    /\ Idle

NextSpinner ==
    \/ ClientSetTotal
    \/ ClientIncrDone
    \/ ClientUpdateMessage
    \/ ClientStart
    \/ Tick
    \/ LoopExit
    \/ ClientStop
    \/ ClientStopWithMessage
    \/ ClientStopReturn

SpecSpinner == InitSpinner /\ [][NextSpinner]_vars

\* ------------------------------------------- stop requests in any tracker state
\* The owner may call Stop or StopWithMessage whether or not the tracker was
\* started, and again after an earlier call has returned.

\* Stop / StopWithMessage, first statement, in whatever state the tracker is:
\* close(s.stop) panics when s.stop is already closed.
StopRequest ==
    /\ stopper \in {"none", "returned"}
    /\ IF stop = "closed"
       THEN /\ stopper' = "panic"
            /\ stop' = stop
       ELSE /\ StopClose
            /\ stopper' \in {"Stop", "StopWithMessage"}
    /\ UNCHANGED <<total, done, message, current, stopped, loop, status, final>>
    /\ UNCHANGED <<callVars, configVars, doctorVars, keyword, lang, pc, gateVars, collectVars, output>>

\* A fresh tracker whose counts clients have already set.
InitStop ==
    /\ total \in 0..MaxTotal
    /\ done \in 0..MaxDone
    /\ message \in Messages
    /\ current = 0
    /\ stop = "open"
    /\ stopped = "open"
    /\ loop = "none"
    /\ status = [kind |-> "none"]
    /\ final = [kind |-> "none"]
    /\ stopper = "none"
    /\ Idle

NextStop ==
    \/ ClientStart
    \/ Tick
    \/ LoopExit
    \/ StopRequest
    \/ ClientStopReturn

\* The render goroutine and the caller of stop are scheduled; nothing obliges
\* the owner to call Start or a stop variant.
SpecStop ==
    InitStop /\ [][NextStop]_vars
        /\ WF_vars(Tick) /\ WF_vars(LoopExit) /\ WF_vars(ClientStopReturn)

\* ------------------------------------------------- CollectData / CollectDataEx

Tier == IF lang = "kr" THEN "simple" ELSE "ex"

\* Titles a source may return, as sequences of characters.
Keys == {<<"a", " ", "b">>, <<"a", "_", "b">>}

\* Simple tier: a title maps to a magnet string, or to TorrentTop.GetMagnet's sentinel.
NoMagnet == "no magnet"
Values == {"m1", "m2", NoMagnet}

\* Extended tier: a title maps to a list of fields.
ValuesEx == {<<"m1">>, <<"m2">>, <<NoMagnet>>}

\* strings.Replace(k, " ", "_", -1)
\* Normalize replacing the first space only.
NormalizeFirst(k) ==
    [i \in 1..Len(k) |->
        IF k[i] = " " /\ (\A j \in 1..(i - 1) : k[j] # " ") THEN "_" ELSE k[i]]

Normalize(k) == [i \in 1..Len(k) |-> IF k[i] = " " THEN "_" ELSE k[i]]

TierValues == IF Tier = "simple" THEN Values ELSE ValuesEx

Collections == UNION {[D -> TierValues] : D \in SUBSET Keys}

\* What Crawl returns: nil, or a (possibly empty) collection.
NilResult == [isNil |-> TRUE, data |-> <<>>]
CrawlResults == {NilResult} \cup {[isNil |-> FALSE, data |-> c] : c \in Collections}

\* Put keeping the value already stored under k (first write wins).
PutIfAbsent(agg, k, v) ==
    [x \in (DOMAIN agg) \cup {k} |-> IF x \in DOMAIN agg THEN agg[x] ELSE v]

\* m[k] = v
Put(agg, k, v) == [x \in (DOMAIN agg) \cup {k} |-> IF x = k THEN v ELSE agg[x]]

\* InsertSimple storing the sentinel like any other value.
InsertSimpleNoFilter(agg, k, v) == Put(agg, Normalize(k), v)

\* InsertSimple deleting the entry of a key whose value is the sentinel.
InsertSimpleDropKey(agg, k, v) ==
    IF v = NoMagnet
    THEN [x \in (DOMAIN agg) \ {Normalize(k)} |-> agg[x]]
    ELSE Put(agg, Normalize(k), v)

\* The body of `for k, v := range elem` in CollectData for one record.
InsertSimple(agg, k, v) == IF v = NoMagnet THEN agg ELSE Put(agg, Normalize(k), v)

\* The body of `for k, v := range elem` in CollectDataEx for one record.
InsertEx(agg, k, v) == Put(agg, Normalize(k), v)

Insert(agg, k, v) == IF Tier = "simple" THEN InsertSimple(agg, k, v) ELSE InsertEx(agg, k, v)

\* `for k, v := range elem`, the map visited in the order `order`.
RECURSIVE MergeElem(_, _, _)
MergeElem(agg, elem, order) ==
    IF order = <<>> THEN agg
    ELSE MergeElem(Insert(agg, order[1], elem[order[1]]), elem, Tail(order))

\* UpdateMessage("Searching")
CollectMsg ==
    /\ pc = "collect_msg"
    /\ UpdateMessage("Searching")
    /\ pc' = "collect_total"
    /\ UNCHANGED <<total, done, current, stop, stopped, loop, status, final>>
    /\ UNCHANGED <<stopper, callVars, configVars, doctorVars, keyword, lang, gateVars, collectVars, output>>

\* spinner.SetTotal(len(s))
CollectTotal ==
    /\ pc = "collect_total"
    /\ SetTotal(Len(s))
    /\ pc' = "collect_reset"
    /\ UNCHANGED <<done, message, current, stop, stopped, loop, status, final>>
    /\ UNCHANGED <<stopper, callVars, configVars, doctorVars, keyword, lang, gateVars, collectVars, output>>

\* CollectReset leaving the count the gate reached.
CollectNoReset ==
    /\ pc = "collect_reset"
    /\ done' = done
    /\ pc' = "collect_launch"
    /\ UNCHANGED <<total, message, current, stop, stopped, loop, status, final>>
    /\ UNCHANGED <<stopper, callVars, configVars, doctorVars, keyword, lang, gateVars, collectVars, output>>

\* atomic.StoreInt32(&spinner.done, 0)
CollectReset ==
    /\ pc = "collect_reset"
    /\ done' = 0
    /\ pc' = "collect_launch"
    /\ UNCHANGED <<total, message, current, stop, stopped, loop, status, final>>
    /\ UNCHANGED <<stopper, callVars, configVars, doctorVars, keyword, lang, gateVars, collectVars, output>>

\* ch := make(chan ..., len(s)); one goroutine per source, wg.Add(1) each.
CollectLaunch ==
    /\ pc = "collect_launch"
    /\ worker' = [i \in 1..Len(s) |-> [v |-> s[i], pc |-> "crawl", r |-> NilResult]]
    /\ crawls' = [i \in 1..Len(s) |-> 0]
    /\ ch' = <<>>
    /\ pc' = "collect_wait"
    /\ UNCHANGED <<spinnerVars, stopper, checks, configVars, doctorVars, keyword, lang,
                   gateVars, s, m, merged, output>>

\* WorkerCrawl asking the source a second time when it returned nothing.
WorkerCrawlRetry(i) ==
    /\ worker[i].pc = "crawl"
    /\ \E r \in CrawlResults :
           worker' = IF r.isNil /\ crawls[i] < 1
                     THEN worker
                     ELSE [worker EXCEPT ![i].pc = "incr", ![i].r = r]
    /\ crawls' = [crawls EXCEPT ![i] = @ + 1]
    /\ UNCHANGED <<spinnerVars, stopper, checks, configVars, doctorVars, keyword, lang, pc,
                   gateVars, s, ch, m, merged, output>>

\* r := v.Crawl(keyword)
WorkerCrawl(i) ==
    /\ worker[i].pc = "crawl"
    /\ \E r \in CrawlResults : worker' = [worker EXCEPT ![i].pc = "incr", ![i].r = r]
    /\ crawls' = [crawls EXCEPT ![i] = @ + 1]
    /\ UNCHANGED <<spinnerVars, stopper, checks, configVars, doctorVars, keyword, lang, pc,
                   gateVars, s, ch, m, merged, output>>

\* WorkerIncr counting only the invocations that returned a collection.
WorkerIncrIfResult(i) ==
    /\ worker[i].pc = "incr"
    /\ done' = IF worker[i].r.isNil THEN done ELSE done + 1
    /\ worker' = [worker EXCEPT ![i].pc = "hand"]
    /\ UNCHANGED <<total, message, current, stop, stopped, loop, status, final>>
    /\ UNCHANGED <<stopper, callVars, configVars, doctorVars, keyword, lang, pc, gateVars, s, ch, m, merged, output>>

\* spinner.IncrDone()
WorkerIncr(i) ==
    /\ worker[i].pc = "incr"
    /\ IncrDone
    /\ worker' = [worker EXCEPT ![i].pc = "hand"]
    /\ UNCHANGED <<total, message, current, stop, stopped, loop, status, final>>
    /\ UNCHANGED <<stopper, callVars, configVars, doctorVars, keyword, lang, pc, gateVars, s, ch, m, merged, output>>

\* A channel one slot short of the number of sources.
CapacityOneShort == IF Len(s) > 0 THEN Len(s) - 1 ELSE Len(s)

\* ch := make(chan ..., len(s)): the capacity of the results channel.
Capacity == Len(s)

\* WorkerHand merging its collection into the aggregate itself.
WorkerHandIntoMap(i) ==
    /\ worker[i].pc = "hand"
    /\ IF worker[i].r.isNil
       THEN m' = m
       ELSE \E order \in Perms(DOMAIN worker[i].r.data) :
                m' = MergeElem(m, worker[i].r.data, order)
    /\ worker' = [worker EXCEPT ![i].pc = "done"]
    /\ UNCHANGED <<spinnerVars, stopper, callVars, configVars, doctorVars, keyword, lang, pc, gateVars, s, ch, merged, output>>

\* if r == nil { return }; ch <- r; the deferred wg.Done().
WorkerHand(i) ==
    /\ worker[i].pc = "hand"
    /\ IF worker[i].r.isNil
       THEN ch' = ch
       ELSE /\ Len(ch) < Capacity
            /\ ch' = Append(ch, worker[i].r.data)
    /\ worker' = [worker EXCEPT ![i].pc = "done"]
    /\ UNCHANGED <<spinnerVars, stopper, callVars, configVars, doctorVars, keyword, lang, pc, gateVars, s, m, merged, output>>

\* CollectWait returning as soon as one worker has finished.
CollectWaitAny ==
    /\ pc = "collect_wait"
    /\ \E i \in DOMAIN worker : worker[i].pc = "done"
    /\ m' = <<>>
    /\ merged' = <<>>
    /\ pc' = "collect_merge"
    /\ UNCHANGED <<spinnerVars, stopper, callVars, configVars, doctorVars, keyword, lang, gateVars, s, ch, worker, output>>

\* wg.Wait(); close(ch); m := map{}
CollectWait ==
    /\ pc = "collect_wait"
    /\ \A i \in DOMAIN worker : worker[i].pc = "done"
    /\ m' = <<>>
    /\ merged' = <<>>
    /\ pc' = "collect_merge"
    /\ UNCHANGED <<spinnerVars, stopper, callVars, configVars, doctorVars, keyword, lang, gateVars, s, ch, worker, output>>

\* for elem := range ch: one collection received and merged.
CollectMerge ==
    /\ pc = "collect_merge"
    /\ ch # <<>>
    /\ \E order \in Perms(DOMAIN Head(ch)) : m' = MergeElem(m, Head(ch), order)
    /\ merged' = Append(merged, Head(ch))
    /\ ch' = Tail(ch)
    /\ UNCHANGED <<spinnerVars, stopper, callVars, configVars, doctorVars, keyword, lang, pc, gateVars, s, worker, output>>

\* The closed channel is drained: return m.
CollectReturn ==
    /\ pc = "collect_merge"
    /\ ch = <<>>
    /\ pc' = "collect_ret"
    /\ UNCHANGED <<spinnerVars, stopper, callVars, configVars, doctorVars, keyword, lang, gateVars, collectVars, output>>

Langs == {"kr", "jp"}

\* The dispatcher called with any source list and a tracker in any state.
InitCollect ==
    /\ total \in 0..MaxTotal
    /\ done \in 0..MaxDone
    /\ message = "Checking sites"
    /\ current = 0
    /\ stop = "open"
    /\ stopped = "open"
    /\ loop = "none"
    /\ status = [kind |-> "none"]
    /\ final = [kind |-> "none"]
    /\ stopper = "none"
    /\ keyword = "kw"
    /\ NoCalls
    /\ ConfigAtRest
    /\ DoctorAtRest
    /\ lang \in Langs
    /\ pc = "collect_msg"
    /\ oldItems = <<>>
    /\ gateCh = <<>>
    /\ probe = <<>>
    /\ newItems = <<>>
    /\ \E n \in 0..MaxSources : s = [i \in 1..n |-> i]
    /\ ch = <<>>
    /\ worker = <<>>
    /\ m = <<>>
    /\ merged = <<>>
    /\ output = [kind |-> "none"]

NextCollect ==
    \/ CollectMsg
    \/ CollectTotal
    \/ CollectReset
    \/ CollectLaunch
    \/ \E i \in DOMAIN worker : WorkerCrawl(i)
    \/ \E i \in DOMAIN worker : WorkerIncr(i)
    \/ \E i \in DOMAIN worker : WorkerHand(i)
    \/ CollectWait
    \/ CollectMerge
    \/ CollectReturn

SpecCollect == InitCollect /\ [][NextCollect]_vars

\* The dispatcher with every goroutine scheduled and every query returning.
SpecCollectLive == InitCollect /\ [][NextCollect]_vars /\ WF_vars(NextCollect)

\* ------------------------------------------------------- the merge rule alone
\* The merge loop of the dispatcher fed one collection twice, on top of any
\* aggregate the earlier collections may have left.

Aggregates ==
    UNION {[D -> {v \in TierValues : Tier = "ex" \/ v # NoMagnet}] : D \in SUBSET {Normalize(k) : k \in Keys}}

InitMerge ==
    /\ \E msg \in Messages : NewSpinner(msg)
    /\ stopper = "none"
    /\ keyword = "kw"
    /\ NoCalls
    /\ ConfigAtRest
    /\ DoctorAtRest
    /\ lang \in Langs
    /\ pc = "collect_merge"
    /\ oldItems = <<>>
    /\ gateCh = <<>>
    /\ probe = <<>>
    /\ newItems = <<>>
    /\ s = <<>>
    /\ \E c \in Collections : ch = <<c, c>>
    /\ worker = <<>>
    /\ m \in Aggregates
    /\ merged = <<>>
    /\ output = [kind |-> "none"]

NextMerge ==
    \/ CollectMerge
    \/ CollectReturn

SpecMerge == InitMerge /\ [][NextMerge]_vars

\* ------------------------------------------------------ key normalization
\* The merge loop fed one collection whose titles hold single spaces, a run
\* of spaces and a tab.

WideKeys == Keys \cup {<<"a", " ", " ", "b">>, <<"a", "\t", "b">>}

WideCollections == UNION {[D -> TierValues] : D \in SUBSET WideKeys}

InitKeys ==
    /\ NewSpinner("Searching")
    /\ stopper = "none"
    /\ keyword = "kw"
    /\ NoCalls
    /\ ConfigAtRest
    /\ DoctorAtRest
    /\ lang \in Langs
    /\ pc = "collect_merge"
    /\ oldItems = <<>>
    /\ gateCh = <<>>
    /\ probe = <<>>
    /\ newItems = <<>>
    /\ s = <<>>
    /\ \E c \in WideCollections : ch = <<c>>
    /\ worker = <<>>
    /\ m = <<>>
    /\ merged = <<>>
    /\ output = [kind |-> "none"]

NextKeys ==
    \/ CollectMerge
    \/ CollectReturn

SpecKeys == InitKeys /\ [][NextKeys]_vars

\* ------------------------------------------------- values of the simple tier
\* The merge loop of CollectData fed one collection of TorrentTop, whose
\* values are whatever GetMagnet returned for each title.

Magnets == {"m1", "m2"}

\* What the fetch of an item's page gives: no response, a body that does not
\* parse, or a document with or without a magnet link.
Pages ==
    {[kind |-> "unreachable"], [kind |-> "unparsable"]}
        \cup {[kind |-> "document", magnet |-> x] : x \in Magnets \cup {""}}

\* TorrentTop.GetMagnet
GetMagnet(page) ==
    IF page.kind = "unreachable" THEN "failed to fetch magnet"
    ELSE IF page.kind = "unparsable" THEN "parse error"
    ELSE IF page.magnet = "" THEN NoMagnet
    ELSE page.magnet

\* m.Store(strings.TrimSpace(title), magnet) in getData: the values of a collection
MagnetValues == {GetMagnet(page) : page \in Pages}

InitValues ==
    /\ NewSpinner("Searching")
    /\ stopper = "none"
    /\ keyword = "kw"
    /\ NoCalls
    /\ ConfigAtRest
    /\ DoctorAtRest
    /\ lang = "kr"
    /\ pc = "collect_merge"
    /\ oldItems = <<>>
    /\ gateCh = <<>>
    /\ probe = <<>>
    /\ newItems = <<>>
    /\ s = <<>>
    /\ \E D \in SUBSET WideKeys : \E c \in [D -> MagnetValues] : ch = <<c>>
    /\ worker = <<>>
    /\ m = <<>>
    /\ merged = <<>>
    /\ output = [kind |-> "none"]

NextValues ==
    \/ CollectMerge
    \/ CollectReturn

SpecValues == InitValues /\ [][NextValues]_vars

\* ------------------------------------- GetAvailableSites / GetAvailableSitesEx

\* The fixed list `items` of GetAvailableSites (kr) and GetAvailableSitesEx.
Items == IF lang = "kr" THEN <<"torrenttop">> ELSE <<"nyaa", "sukebe">>

\* spinner := NewSpinner("Checking sites"); SetTotal(len(oldItems)); Start()
GateNew ==
    /\ pc = "gate_new"
    /\ message' = "Checking sites"
    /\ SetTotal(Len(oldItems))
    /\ Start
    /\ pc' = "gate_launch"
    /\ UNCHANGED <<done, current, stop, stopped, status, final>>
    /\ UNCHANGED <<stopper, callVars, configVars, doctorVars, keyword, lang, gateVars, collectVars, output>>

\* ch := make(chan int, len(items)); one probe goroutine per item.
\* Positions are counted from 1 here, from 0 in the code.
GateLaunch ==
    /\ pc = "gate_launch"
    /\ probe' = [i \in 1..Len(Items) |-> [t |-> Items[i], pc |-> "check", ok |-> FALSE]]
    /\ checks' = [i \in 1..Len(Items) |-> 0]
    /\ gateCh' = <<>>
    /\ newItems' = <<>>
    /\ pc' = "gate_wait"
    /\ UNCHANGED <<spinnerVars, stopper, crawls, configVars, doctorVars, keyword, lang,
                   oldItems, collectVars, output>>

\* ok := CheckNetWorkFromURL(TorrentURL[t])
ProbeCheck(i) ==
    /\ probe[i].pc = "check"
    /\ \E ok \in BOOLEAN : probe' = [probe EXCEPT ![i].pc = "incr", ![i].ok = ok]
    /\ checks' = [checks EXCEPT ![i] = @ + 1]
    /\ UNCHANGED <<spinnerVars, stopper, crawls, configVars, doctorVars, keyword, lang, pc,
                   oldItems, gateCh, newItems, collectVars, output>>

\* spinner.IncrDone()
ProbeIncr(i) ==
    /\ probe[i].pc = "incr"
    /\ IncrDone
    /\ probe' = [probe EXCEPT ![i].pc = "hand"]
    /\ UNCHANGED <<total, message, current, stop, stopped, loop, status, final>>
    /\ UNCHANGED <<stopper, callVars, configVars, doctorVars, keyword, lang, pc, oldItems, gateCh, newItems, collectVars, output>>

\* ProbeHand sending the position whatever the probe's outcome.
ProbeHandAlways(i) ==
    /\ probe[i].pc = "hand"
    /\ Len(gateCh) < Len(Items)
    /\ gateCh' = Append(gateCh, i)
    /\ probe' = [probe EXCEPT ![i].pc = "done"]
    /\ UNCHANGED <<spinnerVars, stopper, callVars, configVars, doctorVars, keyword, lang, pc, oldItems, newItems,
                   collectVars, output>>

\* if ok { ch <- i }; the deferred wg.Done().
ProbeHand(i) ==
    /\ probe[i].pc = "hand"
    /\ IF probe[i].ok
       THEN /\ Len(gateCh) < Len(Items)
            /\ gateCh' = Append(gateCh, i)
       ELSE gateCh' = gateCh
    /\ probe' = [probe EXCEPT ![i].pc = "done"]
    /\ UNCHANGED <<spinnerVars, stopper, callVars, configVars, doctorVars, keyword, lang, pc, oldItems, newItems,
                   collectVars, output>>

\* The handles appended by `for v := range ch` for the positions received.
Project(items, positions) == [j \in 1..Len(positions) |-> items[positions[j]]]

\* wg.Wait(); close(ch); for v := range ch { newItems = append(newItems, oldItems[v]) }
\* An index past the end of oldItems is a run-time panic.
GateDrain ==
    /\ pc = "gate_wait"
    /\ \A i \in DOMAIN probe : probe[i].pc = "done"
    /\ IF \A j \in DOMAIN gateCh : gateCh[j] \in DOMAIN oldItems
       THEN /\ newItems' = Project(oldItems, gateCh)
            /\ pc' = "gate_ret"
       ELSE /\ newItems' = newItems
            /\ pc' = "panic"
    /\ gateCh' = <<>>
    /\ UNCHANGED <<spinnerVars, stopper, callVars, configVars, doctorVars, keyword, lang, oldItems, probe, collectVars, output>>

\* The gate called with any handle list.
InitGate ==
    /\ NewSpinner("Checking sites")
    /\ stopper = "none"
    /\ keyword = "kw"
    /\ NoCalls
    /\ ConfigAtRest
    /\ DoctorAtRest
    /\ lang \in Langs
    /\ pc = "gate_new"
    /\ \E n \in 0..MaxHandles : oldItems = [i \in 1..n |-> i]
    /\ gateCh = <<>>
    /\ probe = <<>>
    /\ newItems = <<>>
    /\ s = <<>>
    /\ ch = <<>>
    /\ worker = <<>>
    /\ m = <<>>
    /\ merged = <<>>
    /\ output = [kind |-> "none"]

NextGate ==
    \/ GateNew
    \/ GateLaunch
    \/ \E i \in DOMAIN probe : ProbeCheck(i)
    \/ \E i \in DOMAIN probe : ProbeIncr(i)
    \/ \E i \in DOMAIN probe : ProbeHand(i)
    \/ GateDrain
    \/ Tick

SpecGate == InitGate /\ [][NextGate]_vars

\* ------------------------------------------------------------------ doSearch

Keywords == {"", "kw"}

\* The handle list doSearch builds for the language.
SearchSites == IF lang = "kr" THEN <<"TorrentTop">> ELSE <<"Nyaa", "SuKeBe">>

\* keyword == "" returns an error; otherwise the sites literal is built and
\* GetAvailableSites / GetAvailableSitesEx is called.
SearchStart ==
    /\ pc = "search_start"
    /\ IF keyword = ""
       THEN /\ output' = [kind |-> "error", msg |-> "please provide a search keyword"]
            /\ pc' = "returned"
            /\ oldItems' = oldItems
       ELSE /\ oldItems' = SearchSites
            /\ pc' = "gate_new"
            /\ output' = output
    /\ UNCHANGED <<spinnerVars, stopper, callVars, configVars, doctorVars, keyword, lang, gateCh, probe, newItems, collectVars>>

\* SearchCheck without the len(sites) == 0 branch.
SearchCheckNoShortCircuit ==
    /\ pc = "gate_ret"
    /\ pc' = "collect_msg"
    /\ s' = newItems
    /\ UNCHANGED <<spinnerVars, stopper, callVars, configVars, doctorVars, keyword, lang, gateVars, ch, worker, m, merged, output>>

\* if len(sites) == 0 { ... } else CollectData / CollectDataEx (sites, keyword, spinner)
SearchCheck ==
    /\ pc = "gate_ret"
    /\ IF Len(newItems) = 0
       THEN /\ pc' = "stop_close"
            /\ s' = s
       ELSE /\ pc' = "collect_msg"
            /\ s' = newItems
    /\ UNCHANGED <<spinnerVars, stopper, callVars, configVars, doctorVars, keyword, lang, gateVars, ch, worker, m, merged, output>>

\* spinner.Stop(): close(s.stop)
SearchStop ==
    /\ pc = "stop_close"
    /\ StopClose
    /\ pc' = "stop_wait"
    /\ UNCHANGED <<total, done, message, current, stopped, loop, status, final>>
    /\ UNCHANGED <<stopper, callVars, configVars, doctorVars, keyword, lang, gateVars, collectVars, output>>

\* spinner.Stop() returns; "[!] No available sites..." is printed; return nil.
SearchNoSites ==
    /\ pc = "stop_wait"
    /\ StopFinish
    /\ output' = [kind |-> "no available sites"]
    /\ pc' = "returned"
    /\ UNCHANGED <<total, done, message, current, stop, stopped, loop, status>>
    /\ UNCHANGED <<stopper, callVars, configVars, doctorVars, keyword, lang, gateVars, collectVars>>

\* spinner.StopWithMessage(...): close(s.stop)
SearchStopWithMessage ==
    /\ pc = "collect_ret"
    /\ StopClose
    /\ pc' = "stopmsg_wait"
    /\ UNCHANGED <<total, done, message, current, stopped, loop, status, final>>
    /\ UNCHANGED <<stopper, callVars, configVars, doctorVars, keyword, lang, gateVars, collectVars, output>>

\* "Found %d result(s) from %d site(s)" with len(data), len(sites)
FoundMessage == [results |-> Cardinality(DOMAIN m), sites |-> Len(s)]

\* StopWithMessage returns; PrintData / PrintDataEx (data); return nil.
SearchFound ==
    /\ pc = "stopmsg_wait"
    /\ StopWithMessageFinish(FoundMessage)
    /\ output' = [kind |-> "table", data |-> m]
    /\ pc' = "returned"
    /\ UNCHANGED <<total, done, message, current, stop, stopped, loop, status>>
    /\ UNCHANGED <<stopper, callVars, configVars, doctorVars, keyword, lang, gateVars, collectVars>>

\* One search run.
Init ==
    /\ NewSpinner("Checking sites")
    /\ stopper = "none"
    /\ keyword \in Keywords
    /\ NoCalls
    /\ ConfigAtRest
    /\ DoctorAtRest
    /\ lang \in Langs
    /\ pc = "search_start"
    /\ oldItems = <<>>
    /\ gateCh = <<>>
    /\ probe = <<>>
    /\ newItems = <<>>
    /\ s = <<>>
    /\ ch = <<>>
    /\ worker = <<>>
    /\ m = <<>>
    /\ merged = <<>>
    /\ output = [kind |-> "none"]

Next ==
    \/ SearchStart
    \/ GateNew
    \/ GateLaunch
    \/ \E i \in DOMAIN probe : ProbeCheck(i)
    \/ \E i \in DOMAIN probe : ProbeIncr(i)
    \/ \E i \in DOMAIN probe : ProbeHand(i)
    \/ GateDrain
    \/ SearchCheck
    \/ SearchStop
    \/ SearchNoSites
    \/ CollectMsg
    \/ CollectTotal
    \/ CollectReset
    \/ CollectLaunch
    \/ \E i \in DOMAIN worker : WorkerCrawl(i)
    \/ \E i \in DOMAIN worker : WorkerIncr(i)
    \/ \E i \in DOMAIN worker : WorkerHand(i)
    \/ CollectWait
    \/ CollectMerge
    \/ CollectReturn
    \/ SearchStopWithMessage
    \/ SearchFound
    \/ Tick
    \/ LoopExit

Spec == Init /\ [][Next]_vars

\* ------------------------------------------------------------- configuration

searchVars == <<spinnerVars, stopper, keyword, lang, pc, gateVars, collectVars, output, callVars>>

\* Site names, URLs and language tags a configuration is built from.
\* http.NewRequest rejects the second URL.
Names == {"torrenttop", "torrentqq"}
URLs == {"https://a.example", ":malformed"}
Malformed(u) == u = ":malformed"
LanguageTags == {"kr", "jp"}

\* SiteConfig
SiteConfigs == [URL : URLs, Enabled : BOOLEAN, Language : LanguageTags]

\* Config.Sites: a map from site name to SiteConfig
SiteMaps == UNION {[D -> SiteConfigs] : D \in SUBSET Names}

\* DefaultConfig().Sites, cut down to one enabled and one disabled site
DefaultSites ==
    [n \in Names |-> [URL |-> "https://a.example", Enabled |-> n = "torrenttop", Language |-> "kr"]]

\* for name, site := range c.Sites { if site.Enabled { TorrentURL[name] = site.URL } }
\* run on the map `urls`
AddEnabled(urls, c) ==
    [n \in (DOMAIN urls) \cup {x \in DOMAIN c : c[x].Enabled} |->
        IF n \in DOMAIN c /\ c[n].Enabled THEN c[n].URL ELSE urls[n]]

\* SaveConfig(c) for c.Sites = c, the write succeeding or not: the three
\* package variables after the call and the error returned. c points to the
\* configuration the caller has edited in place, so config.Sites is c even
\* when the write fails and `config = c` is not reached.
SaveConfig(c, writable) ==
    IF writable
    THEN [sites |-> c, TorrentURL |-> AddEnabled(<<>>, c),
          file |-> [kind |-> "valid", sites |-> c], err |-> "none"]
    ELSE [sites |-> c, TorrentURL |-> TorrentURL, file |-> file,
          err |-> "failed to write config"]

\* The body of configOnce.Do in LoadConfig.
LoadConfig ==
    /\ ~loaded
    /\ loaded' = TRUE
    /\ \/ /\ file.kind = "missing"
          /\ \E writable \in BOOLEAN :
                 LET r == SaveConfig(DefaultSites, writable)
                 IN /\ sites' = r.sites
                    /\ TorrentURL' = r.TorrentURL
                    /\ file' = r.file
                    /\ ret' = [op |-> "LoadConfig", name |-> "", err |-> "none", save |-> TRUE]
       \/ /\ file.kind = "malformed"
          /\ sites' = DefaultSites
          /\ TorrentURL' = AddEnabled(TorrentURL, DefaultSites)
          /\ file' = file
          /\ ret' = [op |-> "LoadConfig", name |-> "", err |-> "none", save |-> FALSE]
       \/ /\ file.kind = "valid"
          /\ sites' = file.sites
          /\ TorrentURL' = AddEnabled(TorrentURL, file.sites)
          /\ file' = file
          /\ ret' = [op |-> "LoadConfig", name |-> "", err |-> "none", save |-> FALSE]
    /\ UNCHANGED <<searchVars, doctorVars>>

\* c.Sites[name] = site
SetSite(c, name, site) == [n \in (DOMAIN c) \cup {name} |-> IF n = name THEN site ELSE c[n]]

\* delete(c.Sites, name)
DeleteSite(c, name) == [n \in (DOMAIN c) \ {name} |-> c[n]]

\* The tail `return SaveConfig(c)` of the four editing functions.
SaveAndReturn(op, name, c) ==
    \E writable \in BOOLEAN :
        LET r == SaveConfig(c, writable)
        IN /\ sites' = r.sites
           /\ TorrentURL' = r.TorrentURL
           /\ file' = r.file
           /\ ret' = [op |-> op, name |-> name, err |-> r.err, save |-> TRUE]

\* An early `return fmt.Errorf(...)` of the four editing functions.
ReturnError(op, name, err) ==
    /\ ret' = [op |-> op, name |-> name, err |-> err, save |-> FALSE]
    /\ UNCHANGED <<sites, TorrentURL, file>>

SetSiteURL(name, url) ==
    /\ loaded
    /\ IF name \notin DOMAIN sites
       THEN ReturnError("SetSiteURL", name, "not found")
       ELSE SaveAndReturn("SetSiteURL", name,
                          SetSite(sites, name, [sites[name] EXCEPT !.URL = url]))
    /\ UNCHANGED <<loaded, searchVars, doctorVars>>

AddSite(name, url, lng) ==
    /\ loaded
    /\ IF name \in DOMAIN sites
       THEN ReturnError("AddSite", name, "already exists")
       ELSE SaveAndReturn("AddSite", name,
                          SetSite(sites, name, [URL |-> url, Enabled |-> TRUE, Language |-> lng]))
    /\ UNCHANGED <<loaded, searchVars, doctorVars>>

EnableSite(name, enabled) ==
    /\ loaded
    /\ IF name \notin DOMAIN sites
       THEN ReturnError("EnableSite", name, "not found")
       ELSE SaveAndReturn("EnableSite", name,
                          SetSite(sites, name, [sites[name] EXCEPT !.Enabled = enabled]))
    /\ UNCHANGED <<loaded, searchVars, doctorVars>>

\* RemoveSite without the lookup of the name.
RemoveSiteNoCheck(name) ==
    /\ loaded
    /\ SaveAndReturn("RemoveSite", name, DeleteSite(sites, name))
    /\ UNCHANGED <<loaded, searchVars, doctorVars>>

RemoveSite(name) ==
    /\ loaded
    /\ IF name \notin DOMAIN sites
       THEN ReturnError("RemoveSite", name, "not found")
       ELSE SaveAndReturn("RemoveSite", name, DeleteSite(sites, name))
    /\ UNCHANGED <<loaded, searchVars, doctorVars>>

\* What the config file may hold when the process starts.
Files ==
    {[kind |-> "missing"], [kind |-> "malformed"]}
        \cup {[kind |-> "valid", sites |-> c] : c \in SiteMaps}

SearchAtRest ==
    /\ NewSpinner("Checking sites")
    /\ stopper = "none"
    /\ keyword = "kw"
    /\ lang = "kr"
    /\ pc = "none"
    /\ oldItems = <<>>
    /\ gateCh = <<>>
    /\ probe = <<>>
    /\ newItems = <<>>
    /\ s = <<>>
    /\ ch = <<>>
    /\ worker = <<>>
    /\ m = <<>>
    /\ merged = <<>>
    /\ output = [kind |-> "none"]
    /\ NoCalls

\* The package before init() has called LoadConfig.
InitConfig ==
    /\ SearchAtRest
    /\ DoctorAtRest
    /\ sites = <<>>
    /\ TorrentURL = <<>>
    /\ file \in Files
    /\ loaded = FALSE
    /\ ret = [op |-> "none"]

NextConfig ==
    \/ LoadConfig
    \/ \E name \in Names, url \in URLs : SetSiteURL(name, url)
    \/ \E name \in Names, url \in URLs, lng \in LanguageTags : AddSite(name, url, lng)
    \/ \E name \in Names, enabled \in BOOLEAN : EnableSite(name, enabled)
    \/ \E name \in Names : RemoveSite(name)

SpecConfig == InitConfig /\ [][NextConfig]_vars

\* -------------------------------------------------------------------- Doctor

\* The sites Doctor launches a goroutine for.
Matching == {n \in DOMAIN sites : language = "" \/ sites[n].Language = language}

\* How a probe ends: http.NewRequest fails, client.Do fails, the response has
\* another status than 200, or the response is 200.
Outcomes == {"request error", "transport error", "status", "ok"}

\* ProbeStatus marking a site available whenever client.Do returned a response.
ProbeStatusAnyResponse(n, site, outcome, latency) ==
    LET st == [Name |-> n, URL |-> site.URL, Available |-> FALSE, Latency |-> 0,
                   Error |-> "", Language |-> site.Language, Enabled |-> site.Enabled]
    IN IF outcome = "request error"
       THEN [st EXCEPT !.Error = "parse error"]
       ELSE IF outcome = "transport error"
       THEN [st EXCEPT !.Latency = latency, !.Error = "transport error"]
       ELSE [st EXCEPT !.Latency = latency, !.Available = TRUE]

\* The SiteStatus a Doctor goroutine builds for site n.
ProbeStatus(n, site, outcome, latency) ==
    LET st == [Name |-> n, URL |-> site.URL, Available |-> FALSE, Latency |-> 0,
                   Error |-> "", Language |-> site.Language, Enabled |-> site.Enabled]
    IN IF outcome = "request error"
       THEN [st EXCEPT !.Error = "parse error"]
       ELSE IF outcome = "transport error"
       THEN [st EXCEPT !.Latency = latency, !.Error = "transport error"]
       ELSE IF outcome = "ok"
       THEN [st EXCEPT !.Latency = latency, !.Available = TRUE]
       ELSE [st EXCEPT !.Latency = latency, !.Error = "HTTP 404"]

\* c := GetConfig(); one goroutine per site that passes the language filter.
DoctorStart ==
    /\ dpc = "start"
    /\ loaded
    /\ dworker' = [n \in Matching |-> [pc |-> "probe", outcome |-> "none",
                                       status |-> [Name |-> n]]]
    /\ results' = <<>>
    /\ dpc' = "wait"
    /\ UNCHANGED <<language, searchVars, configVars>>

\* The goroutine up to the point where its status is complete.
DoctorProbe(n) ==
    /\ dworker[n].pc = "probe"
    /\ \E outcome \in Outcomes, latency \in 1..MaxLatency :
           /\ outcome = "request error" <=> Malformed(sites[n].URL)
           /\ dworker' = [dworker EXCEPT ![n] =
                  [pc |-> "append", outcome |-> outcome,
                   status |-> ProbeStatus(n, sites[n], outcome, latency)]]
    /\ UNCHANGED <<language, dpc, results, searchVars, configVars>>

\* DoctorAppend reporting only the sites that answered.
DoctorAppendIfAvailable(n) ==
    /\ dworker[n].pc = "append"
    /\ results' = IF dworker[n].status.Available
                  THEN Append(results, dworker[n].status)
                  ELSE results
    /\ dworker' = [dworker EXCEPT ![n].pc = "done"]
    /\ UNCHANGED <<language, dpc, searchVars, configVars>>

\* DoctorAppend switching off and saving a site that did not answer.
DoctorAppendDisablingDown(n) ==
    /\ dworker[n].pc = "append"
    /\ results' = Append(results, dworker[n].status)
    /\ dworker' = [dworker EXCEPT ![n].pc = "done"]
    /\ IF dworker[n].status.Available
       THEN UNCHANGED <<sites, TorrentURL, file, ret>>
       ELSE SaveAndReturn("EnableSite", n,
                          SetSite(sites, n, [sites[n] EXCEPT !.Enabled = FALSE]))
    /\ UNCHANGED <<language, dpc, searchVars, loaded>>

\* mu.Lock(); results = append(results, status); mu.Unlock(); wg.Done()
DoctorAppend(n) ==
    /\ dworker[n].pc = "append"
    /\ results' = Append(results, dworker[n].status)
    /\ dworker' = [dworker EXCEPT ![n].pc = "done"]
    /\ UNCHANGED <<language, dpc, searchVars, configVars>>

\* wg.Wait(); return results
DoctorReturn ==
    /\ dpc = "wait"
    /\ \A n \in DOMAIN dworker : dworker[n].pc = "done"
    /\ dpc' = "returned"
    /\ UNCHANGED <<language, dworker, results, searchVars, configVars>>

\* Doctor called with any language filter on any loaded configuration.
InitDoctor ==
    /\ SearchAtRest
    /\ sites \in SiteMaps
    /\ TorrentURL = AddEnabled(<<>>, sites)
    /\ file = [kind |-> "valid", sites |-> sites]
    /\ loaded = TRUE
    /\ ret = [op |-> "LoadConfig", name |-> "", err |-> "none", save |-> FALSE]
    /\ language \in {""} \cup LanguageTags
    /\ dpc = "start"
    /\ dworker = <<>>
    /\ results = <<>>

NextDoctor ==
    \/ DoctorStart
    \/ \E n \in DOMAIN dworker : DoctorProbe(n)
    \/ \E n \in DOMAIN dworker : DoctorAppend(n)
    \/ DoctorReturn

SpecDoctor == InitDoctor /\ [][NextDoctor]_vars

\* ================================================================ properties

Storable(v) == Tier = "ex" \/ v # NoMagnet

\* The values c holds under keys that normalize to k and that the merge stores.
StorableIn(c, k) == {c[x] : x \in {y \in DOMAIN c : Normalize(y) = k /\ Storable(c[y])}}

\* The values c holds under keys that normalize to k.
ValuesIn(c, k) == {c[x] : x \in {y \in DOMAIN c : Normalize(y) = k}}

NormKeys == {Normalize(k) : k \in Keys}

Launched == pc \in {"collect_wait", "collect_merge", "collect_ret"}

AllWorkersDone ==
    /\ DOMAIN worker = 1..Len(s)
    /\ \A i \in DOMAIN worker : worker[i].pc = "done"

\* C1: barrier completeness. The dispatcher neither merges nor returns before
\* every one of the N = len(s) workers has finished, and when it returns the
\* tracker's completed-count is N.
C1_BarrierComplete ==
    /\ pc \in {"collect_merge", "collect_ret"} => AllWorkersDone
    /\ (Launched /\ (m # <<>> \/ merged # <<>>)) => AllWorkersDone
    /\ pc = "collect_ret" => done = Len(s)

C1_Witness ==
    /\ pc = "collect_ret"
    /\ Len(s) >= 2
    /\ done = Len(s)
    /\ m # <<>>

\* C3: best-effort fan-out. Every invocation that has returned has incremented
\* the completed-count exactly once, whatever it returned; at return every
\* storable record of every source is represented in the aggregate, and the
\* aggregate holds nothing but records of the sources, so a nil or empty
\* result adds nothing and blocks nothing.
C3_BestEffort ==
    /\ Launched =>
           done = Cardinality({i \in DOMAIN worker : worker[i].pc \in {"hand", "done"}})
    /\ pc = "collect_ret" =>
           /\ Len(merged) = Cardinality({i \in DOMAIN worker : ~worker[i].r.isNil})
           /\ \A i \in DOMAIN worker : \A k \in DOMAIN worker[i].r.data :
                  Storable(worker[i].r.data[k]) => Normalize(k) \in DOMAIN m
           /\ \A k \in DOMAIN m : \E i \in DOMAIN worker :
                  m[k] \in StorableIn(worker[i].r.data, k)

C3_Witness ==
    /\ pc = "collect_ret"
    /\ done = Len(s)
    /\ \E i, j \in DOMAIN worker :
           /\ worker[i].r.isNil
           /\ ~worker[j].r.isNil
           /\ DOMAIN m = {Normalize(k) : k \in DOMAIN worker[j].r.data}
           /\ m # <<>>

\* The positions of S in increasing order.
RECURSIVE Ascending(_)
Ascending(S) ==
    IF S = {} THEN <<>>
    ELSE LET lo == CHOOSE x \in S : \A y \in S : x <= y
         IN <<lo>> \o Ascending(S \ {lo})

OkPositions == {i \in DOMAIN probe : probe[i].ok}

\* C2: gate positional correlation. The gate returns the handles whose probe
\* succeeded in their original relative order, whatever order the probes
\* finish in.
C2_PositionalOrder ==
    pc = "gate_ret" => newItems = Project(oldItems, Ascending(OkPositions))

\* The last index of merged whose collection has a storable record under k.
HaveStorable(k) == {j \in DOMAIN merged : StorableIn(merged[j], k) # {}}
Last(J) == CHOOSE j \in J : \A i \in J : i <= j

\* Keys on which the records of two different merged collections collide.
Colliding ==
    {k \in NormKeys : \E i, j \in DOMAIN merged :
         i # j /\ ValuesIn(merged[i], k) # {} /\ ValuesIn(merged[j], k) # {}}

\* C4 as stated: a key on which two sources collide has an entry in the
\* returned aggregate, and its value is one of the colliding values.
C4_ExactlyOneSurvives ==
    pc = "collect_ret" =>
        \A k \in Colliding :
            /\ k \in DOMAIN m
            /\ \E j \in DOMAIN merged : m[k] \in ValuesIn(merged[j], k)

\* C4 amended: a key on which two sources collide has an entry exactly when
\* one of the colliding values is stored by the merge (not the sentinel in the
\* simple tier, any value in the extended tier); its value then is a storable
\* value of the collection merged last among those that have one.
C4_LastStorableSurvives ==
    pc = "collect_ret" =>
        \A k \in Colliding :
            IF HaveStorable(k) = {}
            THEN k \notin DOMAIN m
            ELSE /\ k \in DOMAIN m
                 /\ m[k] \in StorableIn(merged[Last(HaveStorable(k))], k)

C4_Witness ==
    /\ pc = "collect_ret"
    /\ Len(merged) = 2
    /\ \E k \in Colliding :
           /\ StorableIn(merged[1], k) # {}
           /\ StorableIn(merged[2], k) # {}
           /\ StorableIn(merged[1], k) \cap StorableIn(merged[2], k) = {}
           /\ k \in DOMAIN m

ReturnedRecords == {<<i, k>> \in (DOMAIN worker) \X Keys : k \in DOMAIN worker[i].r.data}

\* C5 as stated: a key for which a source returned the sentinel has its
\* normalized form absent from the simple-tier aggregate.
C5_SentinelKeyAbsent ==
    (pc = "collect_ret" /\ Tier = "simple") =>
        \A rec \in ReturnedRecords :
            worker[rec[1]].r.data[rec[2]] = NoMagnet => Normalize(rec[2]) \notin DOMAIN m

\* C5 amended: the sentinel is never stored, and a key for which a source
\* returned the sentinel is absent from the simple-tier aggregate unless some
\* returned record whose key normalizes to the same key has another value.
C5_SentinelNotStored ==
    (Launched /\ Tier = "simple") =>
        /\ \A k \in DOMAIN m : m[k] # NoMagnet
        /\ pc = "collect_ret" =>
               \A rec \in ReturnedRecords :
                   (/\ worker[rec[1]].r.data[rec[2]] = NoMagnet
                    /\ \A other \in ReturnedRecords :
                           Normalize(other[2]) = Normalize(rec[2])
                               => worker[other[1]].r.data[other[2]] = NoMagnet)
                       => Normalize(rec[2]) \notin DOMAIN m

C5_Witness ==
    /\ pc = "collect_ret"
    /\ Tier = "simple"
    /\ Len(merged) = 2
    /\ \E rec \in ReturnedRecords : worker[rec[1]].r.data[rec[2]] = NoMagnet
    /\ m = <<>>

\* A collection in which the records colliding on a normalized key leave the
\* merge no choice: at most one distinct storable value per normalized key.
Unambiguous(c) == \A k \in NormKeys : Cardinality(StorableIn(c, k)) <= 1

SecondMerge == Len(merged) = 1 /\ Len(merged') = 2 /\ merged'[2] = merged[1]

\* C6 as stated: merging the same collection a second time leaves the
\* aggregate as the first merge left it, for every collection.
C6_MergeIdempotent == [][SecondMerge => m' = m]_vars

\* C6 amended: merging the same collection a second time leaves the aggregate
\* as the first merge left it, for every collection whose records colliding
\* on one normalized key carry at most one distinct stored value.
C6_MergeIdempotentUnambiguous == [][(SecondMerge /\ Unambiguous(merged[1])) => m' = m]_vars

C6_Witness ==
    /\ Len(merged) = 2
    /\ merged[1] = merged[2]
    /\ Unambiguous(merged[1])
    /\ DOMAIN merged[1] = Keys
    /\ m # <<>>

GateReturned == pc \notin {"search_start", "gate_new", "gate_launch", "gate_wait"} /\ keyword # ""

\* C7: zero-availability short-circuit. When the gate has returned an empty
\* list the dispatcher is not entered and no query worker exists, and the run
\* ends with the tracker stopped and the "no available sites" report.
C7_ShortCircuit ==
    (GateReturned /\ newItems = <<>>) =>
        /\ pc \in {"gate_ret", "stop_close", "stop_wait", "returned"}
        /\ worker = <<>>
        /\ message = "Checking sites"
        /\ pc = "returned" =>
               /\ output = [kind |-> "no available sites"]
               /\ final = [kind |-> "clear"]
               /\ stop = "closed"
               /\ loop = "exited"

C7_Witness ==
    /\ pc = "returned"
    /\ lang = "jp"
    /\ newItems = <<>>
    /\ output = [kind |-> "no available sites"]
    /\ \A i \in DOMAIN probe : ~probe[i].ok

RenderStep == current' # current

\* C8 as stated: a line rendered before any completion has no ETA; a line
\* rendered after a completion shows ETA = (elapsed / done) * (total - done).
C8_EtaAfterFirstCompletion ==
    [][RenderStep =>
          /\ done = 0 => status'.kind # "eta"
          /\ done >= 1 =>
                 /\ status'.kind = "eta"
                 /\ status'.remaining = (status'.elapsed \div done) * (total - done)]_vars

\* C8 amended: a line rendered before any completion has no ETA; a line
\* rendered after a completion, when the total is positive, shows
\* ETA = (elapsed / done) * (total - done); with total 0 it shows no ETA.
C8_EtaWhenTotalPositive ==
    [][RenderStep =>
          /\ done = 0 => status'.kind # "eta"
          /\ (done >= 1 /\ total > 0) =>
                 /\ status'.kind = "eta"
                 /\ status'.remaining = (status'.elapsed \div done) * (total - done)
          /\ (done >= 1 /\ total = 0) => status'.kind = "plain"]_vars

C8_Witness ==
    /\ status.kind = "eta"
    /\ status.total = 4
    /\ status.done = 2
    /\ status.elapsed = 3
    /\ status.remaining = 2

\* C9: stop-and-drain. The render loop goes none -> running -> exited only;
\* once a stop call has returned the loop has exited, s.stopped is closed and
\* no render step happens any more.
C9_StopAndDrain ==
    [][/\ loop = "none" => loop' \in {"none", "running"}
       /\ loop = "running" => loop' \in {"running", "exited"}
       /\ loop = "exited" => loop' = "exited"
       /\ stopper = "returned" =>
              /\ loop = "exited"
              /\ stopped = "closed"
              /\ status' = status
              /\ current' = current
              /\ stopper' = "returned"]_vars

C9_Witness ==
    /\ stopper = "returned"
    /\ loop = "exited"
    /\ status.kind # "none"
    /\ final.kind = "check"

AllProbesDone ==
    /\ DOMAIN probe = DOMAIN Items
    /\ \A j \in DOMAIN probe : probe[j].pc = "done"

\* C10: a query worker exists only for a handle whose gate probe succeeded,
\* and only once every gate probe has completed.
C10_QueryOnlyAvailable ==
    /\ \A i \in DOMAIN worker :
           \E j \in DOMAIN probe : oldItems[j] = worker[i].v /\ probe[j].ok
    /\ (worker # <<>> \/ pc \in {"collect_msg", "collect_total", "collect_reset", "collect_launch"})
           => AllProbesDone

C10_Witness ==
    /\ lang = "jp"
    /\ Len(worker) = 1
    /\ worker[1].pc = "done"
    /\ worker[1].v = "SuKeBe"
    /\ ~probe[1].ok

ResultNames == {results[i].Name : i \in DOMAIN results}

\* C11: Doctor returns exactly one SiteStatus for each configured site that
\* passes the language filter (every site for the empty filter) and none for
\* any other, whatever the probes' outcomes and completion order.
C11_OneStatusPerSite ==
    dpc = "returned" =>
        /\ ResultNames = Matching
        /\ Len(results) = Cardinality(Matching)

C11_Witness ==
    /\ dpc = "returned"
    /\ language = "kr"
    /\ Cardinality(DOMAIN sites) = 2
    /\ Len(results) = 1
    /\ ~results[1].Available

Probed == {n \in DOMAIN dworker : dworker[n].pc \in {"append", "done"}}

\* C12: a SiteStatus has Available = TRUE exactly when the request completed
\* with status 200; otherwise it carries a non-empty error, and an available
\* status carries none.
C12_AvailableIffOk ==
    /\ \A n \in Probed :
           /\ dworker[n].status.Available <=> dworker[n].outcome = "ok"
           /\ ~dworker[n].status.Available => dworker[n].status.Error # ""
           /\ dworker[n].status.Available => dworker[n].status.Error = ""
    /\ \A i \in DOMAIN results :
           /\ results[i].Name \in Probed
           /\ results[i] = dworker[results[i].Name].status

C12_Witness ==
    /\ dpc = "returned"
    /\ \E i, j \in DOMAIN results :
           /\ results[i].Available
           /\ dworker[results[j].Name].outcome = "status"
           /\ results[j].Error = "HTTP 404"

\* C13: every SiteStatus Doctor produces carries a measured latency, on the
\* failure paths as on success.
C13_LatencyMeasured ==
    \A i \in DOMAIN results : results[i].Latency > 0

\* C17: no step of Doctor changes the configured sites, the enabled-URL map
\* or the config file, and none performs a save.
C17_DoctorLeavesConfig ==
    [][/\ sites' = sites
       /\ TorrentURL' = TorrentURL
       /\ file' = file
       /\ ret' = ret
       /\ loaded' = loaded]_vars

C17_Witness ==
    /\ dpc = "returned"
    /\ Len(results) = 2
    /\ \E i \in DOMAIN results : ~results[i].Available /\ results[i].Enabled
    /\ TorrentURL # <<>>
    /\ ret.op = "LoadConfig"

EditOfUnknown ==
    /\ ret'.op \in {"SetSiteURL", "EnableSite", "RemoveSite"}
    /\ ret'.name \notin DOMAIN sites

AddOfKnown ==
    /\ ret'.op = "AddSite"
    /\ ret'.name \in DOMAIN sites

\* C20: SetSiteURL, EnableSite and RemoveSite on a name that is not
\* configured, and AddSite on a configured name, return an error, do not
\* save, and leave the site map, the enabled-URL map and the file as they were.
C20_NameErrorsChangeNothing ==
    [][(EditOfUnknown \/ AddOfKnown) =>
          /\ ret'.err \in {"not found", "already exists"}
          /\ ~ret'.save
          /\ sites' = sites
          /\ TorrentURL' = TorrentURL
          /\ file' = file]_vars

C20_Witness ==
    /\ ret.op = "RemoveSite"
    /\ ret.err = "not found"
    /\ ~ret.save
    /\ ret.name \notin DOMAIN sites
    /\ sites # <<>>
    /\ TorrentURL # <<>>

SourceKeys == UNION {DOMAIN merged[j] : j \in DOMAIN merged}

Whitespace == {" ", "\t"}

\* C14 as stated: every key of the returned aggregate comes from a source
\* key and holds no whitespace character.
C14_NoWhitespaceInKeys ==
    pc = "collect_ret" =>
        \A k \in DOMAIN m :
            /\ \E x \in SourceKeys : Len(k) <= Len(x)
            /\ \A i \in DOMAIN k : k[i] \notin Whitespace

\* C14 amended: every key of the returned aggregate is a source key with each
\* space character replaced by '_' and every other character kept, so no
\* aggregate key holds a space.
C14_SpacesReplaced ==
    pc = "collect_ret" =>
        \A k \in DOMAIN m :
            /\ \E x \in SourceKeys :
                   /\ Len(k) = Len(x)
                   /\ \A i \in DOMAIN k : k[i] = (IF x[i] = " " THEN "_" ELSE x[i])
            /\ \A i \in DOMAIN k : k[i] # " "

C14_Witness ==
    /\ pc = "collect_ret"
    /\ <<"a", "_", "_", "b">> \in DOMAIN m
    /\ <<"a", "\t", "b">> \in DOMAIN m

\* C15: the aggregate changes only in a merge step of the coordinator, taken
\* after every worker has finished and the channel is closed; a step of a
\* worker never changes it.
C15_OnlyCoordinatorWrites ==
    [][/\ m' # m => /\ pc = "collect_merge"
                    /\ AllWorkersDone
                    /\ worker' = worker
                    /\ ch # <<>>
                    /\ ch' = Tail(ch)
       /\ worker' # worker => m' = m]_vars

C15_Witness ==
    /\ pc = "collect_ret"
    /\ m # <<>>
    /\ Len(merged) = 1
    /\ Len(s) = 2

Reported == {i \in DOMAIN worker : worker[i].pc \in {"hand", "done"}}

\* C16: the tracker the gate returns is running with total = number of
\* candidate sources; in the dispatcher, whenever workers exist, total is the
\* number of live sources and done counts exactly the workers that reported.
C16_TrackerHandoff ==
    /\ pc = "gate_ret" => /\ loop = "running"
                          /\ total = Len(oldItems)
    /\ Launched => /\ s = newItems
                   /\ total = Len(s)
                   /\ done = Cardinality(Reported)

C16_Witness ==
    /\ pc = "collect_ret"
    /\ lang = "jp"
    /\ Len(oldItems) = 2
    /\ Len(s) = 1
    /\ total = 1
    /\ done = 1
    /\ loop = "running"

NoWorkerBlocks ==
    \A i \in DOMAIN worker :
        (worker[i].pc = "hand" /\ ~worker[i].r.isNil) => Len(ch) < Len(s)

\* C18: when every query returns and every goroutine is scheduled, the
\* dispatcher returns, and no worker ever finds the channel full.
C18_DispatcherReturns == [](NoWorkerBlocks) /\ <>(pc = "collect_ret")

C18_Witness ==
    /\ pc = "collect_ret"
    /\ Len(s) = 2
    /\ Len(merged) = 2
    /\ \A i \in DOMAIN worker : ~worker[i].r.isNil

\* C19: no source is probed more than once in a gate call or queried more
\* than once in a dispatcher call, and when each call has returned every
\* named source was probed once and every live source queried once.
C19_NoRetry ==
    /\ \A i \in DOMAIN checks : checks[i] <= 1
    /\ \A i \in DOMAIN crawls : crawls[i] <= 1
    /\ GateReturned => /\ DOMAIN checks = DOMAIN Items
                       /\ \A i \in DOMAIN checks : checks[i] = 1
    /\ pc \in {"collect_ret", "stopmsg_wait"} =>
           /\ DOMAIN crawls = DOMAIN s
           /\ \A i \in DOMAIN crawls : crawls[i] = 1

C19_Witness ==
    /\ pc = "collect_ret"
    /\ Len(Items) = 2
    /\ Len(s) = 2
    /\ \E i \in DOMAIN worker : worker[i].r.isNil
    /\ \A i \in DOMAIN crawls : crawls[i] = 1

EnabledNames == {n \in DOMAIN sites : sites[n].Enabled}

EnabledMapExact ==
    /\ DOMAIN TorrentURL = EnabledNames
    /\ \A n \in DOMAIN TorrentURL : TorrentURL[n] = sites[n].URL

\* C25: once LoadConfig has completed, on whichever path, and after every
\* SaveConfig that succeeded, TorrentURL holds exactly the pairs name -> URL
\* of the enabled sites of the current configuration.
C25_EnabledMapExact ==
    (loaded /\ (ret.op = "LoadConfig" \/ (ret.save /\ ret.err = "none")))
        => EnabledMapExact

SaveFailed ==
    /\ ret'.op \in {"SetSiteURL", "AddSite", "EnableSite", "RemoveSite"}
    /\ ret'.save
    /\ ret'.err # "none"

\* C26: a call of SetSiteURL, AddSite, EnableSite or RemoveSite whose save
\* fails returns an error and leaves the site map and the enabled-URL map as
\* they were before the call.
C26_UnchangedOnSaveFailure ==
    [][SaveFailed => (sites' = sites /\ TorrentURL' = TorrentURL)]_vars

\* C21: every line the render loop prints during a search run shows a
\* completed-count no greater than the total, and an ETA that is not negative.
C21_DoneWithinTotal ==
    status.kind = "eta" =>
        /\ status.done <= status.total
        /\ status.remaining >= 0

\* C22: a stop request never panics, and every stop request made, in
\* whatever state the tracker is, eventually returns.
C22_StopReturns ==
    /\ [](stopper # "panic")
    /\ (stopper \in {"Stop", "StopWithMessage"}) ~> (stopper = "returned")

\* C23: for every handle list, each position a probe reports is an index of
\* the list, the gate never reads past its end, as many probes are launched
\* as the tracker's total, and the completed-count stays within the total
\* during the gate stage.
C23_GateWithinBounds ==
    /\ pc # "panic"
    /\ \A j \in DOMAIN gateCh : gateCh[j] \in DOMAIN oldItems
    /\ pc \in {"gate_wait", "gate_ret"} =>
           /\ Len(probe) = total
           /\ done <= total

\* C24: every value of the simple-tier aggregate CollectData returns is a
\* magnet link: not the sentinel and not a failure marker of GetMagnet.
C24_OnlyMagnetsStored ==
    pc = "collect_ret" => \A k \in DOMAIN m : m[k] \in Magnets

====
